---- MODULE Spec2Model ----
(***************************************************************************)
(* Model of the 3D viewer control: the footprint pipeline of              *)
(* My3DViewerControl/index.ts (createCubes: coordinate evaluation, global *)
(* extent, normalisation, extrusion, scene registry) and the scene-bounds  *)
(* computation and camera fit of My3DViewerControl/cameraUtils.ts.         *)
(*                                                                         *)
(* Numbers.  The source computes in IEEE doubles.  The model keeps exact   *)
(* integers:                                                               *)
(*   - raw coordinates are small integers;                                 *)
(*   - a centre (min + max) / 2 is kept DOUBLED, as min + max;             *)
(*   - a normalised ring point is kept doubled: (2*x - (min+max)) * scale; *)
(*   - boxes of the pipeline are kept in twentieths of a scene unit, so    *)
(*     that the bevel of 0.1 is the integer 2.                             *)
(* A JavaScript number is a record [nan, v]: NaN is [nan |-> TRUE].        *)
(***************************************************************************)
EXTENDS Integers, Sequences, FiniteSets, TLC

VARIABLES
    scene,              \* scene.children: sequence of attached objects
    cubes,              \* the mesh list the host holds (return value of the last createCubes)
    cameraPosition,     \* camera.position
    controlsTarget,     \* controls.target
    calls,              \* number of createCubes calls so far
    closed,             \* no further update follows in this behaviour
    tableData,          \* the batch given to the last call
    extent,             \* globalMin/Max Lon/Lat at the end of the last first pass
    payloadCodeRan,     \* TRUE once code carried by a payload has been executed
    prevCameraPosition, \* camera.position when the last call started
    prevControlsTarget, \* controls.target when the last call started
    bounds,             \* result of the last calculateSceneBounds of the bounds harness
    boundsScene,        \* the scene that result was computed from
    parsed,             \* the last call of a stand-alone parser: which, its input, its result
    now,                \* performance.now(), in ticks
    loops,              \* the animated fits issued so far, one closure each, in issue order
    lastOp,             \* the last fit call or frame of the fit harness
    fits,               \* number of fit calls so far, static and animated
    lastFit,            \* the pose the most recent fit call that found bounds aims at
    released,           \* per mesh id: how many times geometry and material were disposed
    trace,              \* the scene and dispose operations of the last handler, in order
    destroyed,          \* number of destroy() calls so far
    isMouseDown,        \* this._isMouseDown
    mouseX,             \* this._mouseX
    mouseY,             \* this._mouseY
    targetRotationX,    \* this._targetRotationX, in units of 0.02
    targetRotationY,    \* this._targetRotationY, in units of 0.02
    targetRotationOnMouseDownX, \* this._targetRotationOnMouseDownX, in units of 0.02
    targetRotationOnMouseDownY, \* this._targetRotationOnMouseDownY, in units of 0.02
    mouseXOnMouseDown,  \* this._mouseXOnMouseDown
    mouseYOnMouseDown,  \* this._mouseYOnMouseDown
    pointer,            \* clientX, clientY of the last mouse event
    lastEvent,          \* the last mouse event handled, and the state it found
    presses,            \* number of mousedown events so far
    press               \* the pointer and the target rotation at the last mousedown event

\* the animated fit, the control's lifecycle and the mouse-rotation control
fitVars == <<now, loops, lastOp, fits, lastFit>>
controlVars == <<released, trace, destroyed>>
mouseVars == <<isMouseDown, mouseX, mouseY, targetRotationX, targetRotationY,
               targetRotationOnMouseDownX, targetRotationOnMouseDownY,
               mouseXOnMouseDown, mouseYOnMouseDown, pointer, lastEvent,
               presses, press>>

vars == <<scene, cubes, cameraPosition, controlsTarget, calls, closed,
          tableData, extent, payloadCodeRan, prevCameraPosition,
          prevControlsTarget, bounds, boundsScene, parsed,
          fitVars, controlVars, mouseVars>>

---------------------------------------------------------------------------
(* Bounds of the model *)

MaxBatch == 2       \* records per batch
MaxCalls == 2       \* createCubes calls per behaviour
MaxScene == 3       \* objects attached to the scene of the bounds harness

---------------------------------------------------------------------------
(* JavaScript numbers with NaN *)

NaN == [nan |-> TRUE, v |-> 0]
N(i) == [nan |-> FALSE, v |-> i]

\* a - b
NumSub(a, b) == IF a.nan \/ b.nan THEN NaN ELSE N(a.v - b.v)
\* a * k for an integer k
NumScale(a, k) == IF a.nan THEN NaN ELSE N(a.v * k)

Min2(a, b) == IF a < b THEN a ELSE b
Max2(a, b) == IF a > b THEN a ELSE b
SetMin(S) == CHOOSE m \in S : \A x \in S : m <= x
SetMax(S) == CHOOSE m \in S : \A x \in S : m >= x

---------------------------------------------------------------------------
(* JavaScript values a coordinate string can evaluate to *)

Num(n) == [n |-> n, t |-> "number", e |-> <<>>]
Arr(s) == [n |-> 0, t |-> "array", e |-> s]
Undefined == [n |-> 0, t |-> "undefined", e |-> <<>>]
\* the exception raised by reading a property of undefined
TypeError == [n |-> 0, t |-> "TypeError", e |-> <<>>]

Pt(x, y) == Arr(<<Num(x), Num(y)>>)

\* Array.isArray(v)
IsArray(v) == v.t = "array"

\* v[i] (0-based): a TypeError on undefined, undefined out of range or on a number
Index(v, i) ==
    IF v.t \in {"undefined", "TypeError"} THEN TypeError
    ELSE IF v.t = "array" /\ i < Len(v.e) THEN v.e[i + 1]
    ELSE Undefined

\* the numeric value of v in an arithmetic expression (undefined -> NaN)
ToNumber(v) == IF v.t = "number" THEN N(v.n) ELSE NaN

---------------------------------------------------------------------------
(* Records of a batch.  A record carries the text of its 'Coordinates'     *)
(* column; what the JavaScript engine does with `new Function('return ' +  *)
(* text)()` is part of the input: it throws (throws), or returns val, and  *)
(* running it has an observable side effect when the text carries code     *)
(* (effect).  literal says that the text is a well-formed numeric-array    *)
(* literal.  missing stands for tableData.records[recordId] being absent.  *)

Payload(name, missing, throws, effect, literal, val) ==
    [name |-> name, missing |-> missing, throws |-> throws, effect |-> effect,
     literal |-> literal, val |-> val]

\* "[[0,0],[2,0],[2,2],[0,2],[0,0]]": a ring of 5 points that repeats its first point
ClosedSquare ==
    Payload("closedSquare", FALSE, FALSE, FALSE, TRUE,
            Arr(<<Pt(0, 0), Pt(2, 0), Pt(2, 2), Pt(0, 2), Pt(0, 0)>>))
\* "[[4,4],[8,4],[8,6]]": a ring of 3 points that does not repeat its first point
OpenTriangle ==
    Payload("openTriangle", FALSE, FALSE, FALSE, TRUE,
            Arr(<<Pt(4, 4), Pt(8, 4), Pt(8, 6)>>))
\* "[[[1,1],[3,1],[3,3]],[[9,9],[9,8],[8,8]]]": polygon-with-rings form
PolygonRings ==
    Payload("polygonRings", FALSE, FALSE, FALSE, TRUE,
            Arr(<<Arr(<<Pt(1, 1), Pt(3, 1), Pt(3, 3)>>),
                  Arr(<<Pt(9, 9), Pt(9, 8), Pt(8, 8)>>)>>))
\* "[[8,8],[9,9]]": a ring of 2 points
ShortRing ==
    Payload("shortRing", FALSE, FALSE, FALSE, TRUE, Arr(<<Pt(8, 8), Pt(9, 9)>>))
\* "[[0,0],[6,0],[6]]": the third point has one component
BadPoint ==
    Payload("badPoint", FALSE, FALSE, FALSE, TRUE,
            Arr(<<Pt(0, 0), Pt(6, 0), Arr(<<Num(6)>>)>>))
\* "[1,2,3]": an array whose elements are not points
FlatNumbers ==
    Payload("flatNumbers", FALSE, FALSE, FALSE, TRUE,
            Arr(<<Num(1), Num(2), Num(3)>>))
\* "not an array": a syntax error, the Function constructor throws
SyntaxErr == Payload("syntaxError", FALSE, TRUE, FALSE, FALSE, Undefined)
\* "5": evaluates to a number
Scalar == Payload("scalar", FALSE, FALSE, FALSE, FALSE, Num(5))
\* "(sideEffect(), [[4,4],[8,4],[8,6]])": code that ends in a ring
CodeRing ==
    Payload("codeRing", FALSE, FALSE, TRUE, FALSE,
            Arr(<<Pt(4, 4), Pt(8, 4), Pt(8, 6)>>))
\* tableData.records[recordId] is undefined
MissingRecord == Payload("missing", TRUE, FALSE, FALSE, FALSE, Undefined)

Payloads ==
    {ClosedSquare, OpenTriangle, PolygonRings, ShortRing, BadPoint,
     FlatNumbers, SyntaxErr, Scalar, CodeRing, MissingRecord}

\* the records of the updates that another update follows
CorePayloads == {OpenTriangle, ShortRing, SyntaxErr}

RECURSIVE SeqsUpTo(_, _)
SeqsUpTo(S, n) ==
    IF n = 0 THEN {<<>>}
    ELSE LET shorter == SeqsUpTo(S, n - 1)
         IN  shorter \cup {Append(s, x) : s \in {t \in shorter : Len(t) = n - 1}, x \in S}

\* tableData: absent (no sortedRecordIds), or the records in sortedRecordIds order
Batches == SeqsUpTo(Payloads, MaxBatch)
CoreBatches == SeqsUpTo(CorePayloads, MaxBatch)
DataSet(records) == [records |-> records, present |-> TRUE]
NoDataSet == [records |-> <<>>, present |-> FALSE]

---------------------------------------------------------------------------
(* Program constants *)

scale == 100000          \* const scale = 100000
depth20 == 2             \* extrudeSettings.depth = 0.1, in twentieths
bevelThickness20 == 2    \* extrudeSettings.bevelThickness = 0.1, in twentieths
bevelSize20 == 2         \* extrudeSettings.bevelSize = 0.1, in twentieths
fitPadding10 == 13       \* zoomToFitGeometry(camera, controls, scene, 1.3), in tenths

---------------------------------------------------------------------------
(* createCubes, first pass: the global extent *)

\* let globalMinLon = Infinity, globalMaxLon = -Infinity, ...: nothing folded yet
EmptyExtent == [def |-> FALSE, minLon |-> 0, maxLon |-> 0, minLat |-> 0, maxLat |-> 0]

\* a selection that takes the last ring of a polygon-with-rings value
SelectLastRing(coordinates) ==
    LET first == Index(coordinates, 0)
        inner == Index(first, 0)
    IN  IF inner = TypeError THEN TypeError
        ELSE IF IsArray(inner) THEN Index(coordinates, Len(coordinates.e) - 1)
        ELSE coordinates

\* Array.isArray(coordinates[0][0]) ? coordinates[0] : coordinates
\* (TypeError when coordinates[0] is undefined)
SelectRing(coordinates) ==
    LET first == Index(coordinates, 0)
        inner == Index(first, 0)
    IN  IF inner = TypeError THEN TypeError
        ELSE IF IsArray(inner) THEN first
        ELSE coordinates

\* the body of polygonCoords.forEach of the first pass
FoldPoint(ext, coord) ==
    IF IsArray(coord) /\ Len(coord.e) >= 2
    THEN LET lon == coord.e[1].n
             lat == coord.e[2].n
         IN  IF ext.def
             THEN [def |-> TRUE,
                   minLon |-> Min2(ext.minLon, lon), maxLon |-> Max2(ext.maxLon, lon),
                   minLat |-> Min2(ext.minLat, lat), maxLat |-> Max2(ext.maxLat, lat)]
             ELSE [def |-> TRUE, minLon |-> lon, maxLon |-> lon,
                   minLat |-> lat, maxLat |-> lat]
    ELSE ext

RECURSIVE FoldRing(_, _)
FoldRing(ext, points) ==
    IF points = <<>> THEN ext
    ELSE FoldRing(FoldPoint(ext, Head(points)), Tail(points))

\* one iteration of the first pass; an exception leaves the extent as it was
BoundsOfRecord(ext, p) ==
    IF p.missing \/ p.throws THEN ext
    ELSE LET polygonCoords == SelectRing(p.val)
         IN  IF polygonCoords = TypeError THEN ext
             ELSE FoldRing(ext, polygonCoords.e)

RECURSIVE FirstPass(_, _)
FirstPass(ext, records) ==
    IF records = <<>> THEN ext
    ELSE FirstPass(BoundsOfRecord(ext, Head(records)), Tail(records))

\* globalCenterLon and globalCenterLat, doubled: (Infinity + -Infinity) / 2 is NaN
GlobalCenter2(ext) ==
    IF ext.def THEN <<N(ext.minLon + ext.maxLon), N(ext.minLat + ext.maxLat)>>
    ELSE <<NaN, NaN>>

---------------------------------------------------------------------------
(* createCubes, second pass: one solid per record *)

\* (coord[k] - globalCenter) * scale, doubled
Normalise(coord, k, center2) ==
    NumScale(NumSub(NumScale(ToNumber(Index(coord, k)), 2), center2[k + 1]), scale)

\* polygonCoords.map(coord => new THREE.Vector2(x, y))
RECURSIVE MapPoints(_, _)
MapPoints(coords, center2) ==
    IF coords = <<>> THEN <<>>
    ELSE <<<<Normalise(Head(coords), 0, center2), Normalise(Head(coords), 1, center2)>>>>
         \o MapPoints(Tail(coords), center2)

NormaliseRing(polygonCoords, center2) == MapPoints(polygonCoords.e, center2)

\* a second pass without the check polygonCoords.length < 3
BuildRingAnyLength(p, center2) ==
    IF p.missing \/ p.throws THEN [ok |-> FALSE, ring |-> <<>>]
    ELSE LET polygonCoords == SelectRing(p.val)
         IN  IF polygonCoords = TypeError THEN [ok |-> FALSE, ring |-> <<>>]
             ELSE [ok |-> TRUE, ring |-> NormaliseRing(polygonCoords, center2)]

\* the try block of the second pass up to new THREE.Shape(points):
\* ok = a shape is built from ring, otherwise the record is skipped
BuildRing(p, center2) ==
    IF p.missing \/ p.throws THEN [ok |-> FALSE, ring |-> <<>>]
    ELSE LET polygonCoords == SelectRing(p.val)
         IN  IF polygonCoords = TypeError THEN [ok |-> FALSE, ring |-> <<>>]
             ELSE IF Len(polygonCoords.e) < 3 THEN [ok |-> FALSE, ring |-> <<>>]
             ELSE [ok |-> TRUE, ring |-> NormaliseRing(polygonCoords, center2)]

---------------------------------------------------------------------------
(* The stand-alone parsers: parseCoordinates (index.ts, called by nothing) *)
(* and parseGeoJSON of the GeoJSON version of the control.                 *)

\* a parser's result: null, or the points
Null == [points |-> <<>>, isNull |-> TRUE]
Points(ps) == [points |-> ps, isNull |-> FALSE]

\* the minLon/maxLon/minLat/maxLat of parseCoordinates: the record's own extent
OwnCenter2(polygonCoords) == GlobalCenter2(FoldRing(EmptyExtent, polygonCoords.e))

\* parseCoordinates(coordinateString); 'Invalid coordinate format' is thrown,
\* and null returned, when a point is no array of at least 2 components
parseCoordinates(p) ==
    IF p.throws THEN Null
    ELSE IF ~IsArray(p.val) \/ Len(p.val.e) = 0 THEN Null
    ELSE LET polygonCoords == SelectRing(p.val)
         IN  IF polygonCoords = TypeError THEN Null
             ELSE IF Len(polygonCoords.e) < 3 THEN Null
             ELSE IF \E j \in 1..Len(polygonCoords.e) :
                        ~IsArray(polygonCoords.e[j]) \/ Len(polygonCoords.e[j].e) < 2
                  THEN Null
             ELSE Points(NormaliseRing(polygonCoords, OwnCenter2(polygonCoords)))

\* the text of a 'Geometry' column: JSON.parse throws on it, or gives an object
\* with this type and these coordinates
GeoJSON(name, throws, type, coordinates) ==
    [name |-> name, throws |-> throws, coordinates |-> coordinates, type |-> type]

\* outerRing.slice(0, -1).map(coord => new THREE.Vector2(coord[0], coord[1]))
RECURSIVE RawPoints(_)
RawPoints(coords) ==
    IF Len(coords) <= 1 THEN <<>>
    ELSE <<<<ToNumber(Index(Head(coords), 0)), ToNumber(Index(Head(coords), 1))>>>>
         \o RawPoints(Tail(coords))

\* parseGeoJSON(geoJsonString)
parseGeoJSON(g) ==
    IF g.throws THEN Null
    ELSE IF g.type = "Polygon" /\ IsArray(g.coordinates) /\ Len(g.coordinates.e) > 0
    THEN LET outerRing == Index(g.coordinates, 0)
         IN  IF ~IsArray(outerRing) THEN Null
             ELSE IF Len(RawPoints(outerRing.e)) >= 3 THEN Points(RawPoints(outerRing.e))
             ELSE Null
    ELSE Null

---------------------------------------------------------------------------
(* Boxes, world placement and scene objects *)

Axes == 1..3

Box(lo, hi) == [nan |-> FALSE, min |-> lo, max |-> hi]
\* a box whose corners are NaN
NaNBox == [nan |-> TRUE, min |-> <<0, 0, 0>>, max |-> <<0, 0, 0>>]

\* object.matrixWorld: a translation, after a rotation by -PI/2 about x when rot
Placement(rot, pos) == [rot |-> rot, pos |-> pos]
Identity == Placement(FALSE, <<0, 0, 0>>)

\* matrix times point: rotation.x = -PI/2 maps (x, y, z) to (x, z, -y)
ApplyToPoint(m, q) ==
    LET r == IF m.rot THEN <<q[1], q[3], 0 - q[2]>> ELSE q
    IN  <<r[1] + m.pos[1], r[2] + m.pos[2], r[3] + m.pos[3]>>

\* Box3.applyMatrix4: the axis-aligned box of the 8 transformed corners
ApplyMatrix4(box, m) ==
    IF box.nan THEN NaNBox
    ELSE LET corners == {ApplyToPoint(m, <<x, y, z>>) :
                            x \in {box.min[1], box.max[1]},
                            y \in {box.min[2], box.max[2]},
                            z \in {box.min[3], box.max[3]}}
             lo(a) == SetMin({c[a] : c \in corners})
             hi(a) == SetMax({c[a] : c \in corners})
         IN  Box(<<lo(1), lo(2), lo(3)>>, <<hi(1), hi(2), hi(3)>>)

\* geometry.boundingBox of new THREE.ExtrudeGeometry(shape, extrudeSettings), in
\* twentieths: the ring's planar extent widened by the bevel, and the depth plus
\* the bevel on both sides; NaN as soon as a point has a NaN component
ExtrudeBox(ring) ==
    IF \E i \in 1..Len(ring) : ring[i][1].nan \/ ring[i][2].nan THEN NaNBox
    ELSE LET xs == {ring[i][1].v : i \in 1..Len(ring)}
             ys == {ring[i][2].v : i \in 1..Len(ring)}
         IN  Box(<<10 * SetMin(xs) - bevelSize20, 10 * SetMin(ys) - bevelSize20,
                   0 - bevelThickness20>>,
                 <<10 * SetMax(xs) + bevelSize20, 10 * SetMax(ys) + bevelSize20,
                   depth20 + bevelThickness20>>)

\* an object of the scene graph; rec and ring are those a generated solid was built from
SceneObject(id, kind, role, rec, ring, box, world) ==
    [ring |-> ring, box |-> box, id |-> id, kind |-> kind, role |-> role,
     rec |-> rec, world |-> world]

\* new THREE.Mesh(geometry, material) of the second pass, position.set(0, 0, 0)
Polygon(id, rec, ring) ==
    SceneObject(id, "mesh", "solid", rec, ring, ExtrudeBox(ring), Identity)

Ids(objects) == {objects[i].id : i \in 1..Len(objects)}

---------------------------------------------------------------------------
(* cameraUtils.ts: scene bounds and the static fit *)

NullBounds == [isNull |-> TRUE, box |-> NaNBox]

\* a union that keeps the running box when the mesh box starts below it
UnionLosesMin(a, b) ==
    IF a.nan \/ b.nan THEN NaNBox
    ELSE Box(a.min,
             <<Max2(a.max[1], b.max[1]), Max2(a.max[2], b.max[2]), Max2(a.max[3], b.max[3])>>)

\* box.union(meshBox): per-axis min of the mins and max of the maxes
Union(a, b) ==
    IF a.nan \/ b.nan THEN NaNBox
    ELSE Box(<<Min2(a.min[1], b.min[1]), Min2(a.min[2], b.min[2]), Min2(a.min[3], b.min[3])>>,
             <<Max2(a.max[1], b.max[1]), Max2(a.max[2], b.max[2]), Max2(a.max[3], b.max[3])>>)

\* a traversal that skips the meshes that are not generated solids
VisitSolidsOnly(acc, object) ==
    IF object.kind = "mesh" /\ object.role = "solid"
    THEN LET meshBox == ApplyMatrix4(object.box, object.world)
         IN  IF acc.isNull THEN [isNull |-> FALSE, box |-> meshBox]
             ELSE [isNull |-> FALSE, box |-> Union(acc.box, meshBox)]
    ELSE acc

\* the callback of scene.traverse
VisitObject(acc, object) ==
    IF object.kind = "mesh"
    THEN LET meshBox == ApplyMatrix4(object.box, object.world)
         IN  IF acc.isNull THEN [isNull |-> FALSE, box |-> meshBox]
             ELSE [isNull |-> FALSE, box |-> Union(acc.box, meshBox)]
    ELSE acc

RECURSIVE Traverse(_, _)
Traverse(acc, objects) ==
    IF objects = <<>> THEN acc
    ELSE Traverse(VisitObject(acc, Head(objects)), Tail(objects))

calculateSceneBounds(children) == Traverse(NullBounds, children)

\* Box3.isEmpty(): max < min on some axis (false for NaN)
IsEmpty(box) == ~box.nan /\ \E a \in Axes : box.max[a] < box.min[a]

\* bounds.getCenter(), doubled
Center2(box) ==
    <<box.min[1] + box.max[1], box.min[2] + box.max[2], box.min[3] + box.max[3]>>

\* camera.position as the static fit leaves it: center + unit(1, 0.8, 1) *
\* (maxDimension / 2) / tan(fov / 2) * fitPadding, kept as its parameters
\* (center doubled, maxDimension, fitPadding in tenths)
\* dist is paddedDistance = (maxDimension / 2) / tan(fov / 2) * fitPadding in units
\* of 1 / (20 * tan(fov / 2)), fov being the camera's, the same in every call
FitPosition(box, padding10) ==
    IF box.nan THEN [kind |-> "NaN", c2 |-> <<0, 0, 0>>, maxDim |-> 0, pad |-> 0, dist |-> 0]
    ELSE LET maxDimension == SetMax({box.max[a] - box.min[a] : a \in Axes})
         IN  [kind |-> "fit",
              c2 |-> Center2(box),
              maxDim |-> maxDimension,
              pad |-> padding10,
              dist |-> maxDimension * padding10]

\* controls.target.copy(center), center doubled
FitTarget(box) ==
    IF box.nan THEN [kind |-> "NaN", c2 |-> <<0, 0, 0>>]
    ELSE [kind |-> "center", c2 |-> Center2(box)]

\* camera.position.z = 5 and controls.target = (0, 0, 0) after init
InitialPosition ==
    [kind |-> "initial", c2 |-> <<0, 0, 0>>, maxDim |-> 0, pad |-> 0, dist |-> 0]
InitialTarget == [kind |-> "initial", c2 |-> <<0, 0, 0>>]

\* a fit that moves the camera and leaves controls.target where it was
zoomToFitKeepsTarget(position, target, children, padding10) ==
    LET b == calculateSceneBounds(children)
    IN  IF b.isNull \/ IsEmpty(b.box) THEN [position |-> position, target |-> target]
        ELSE [position |-> FitPosition(b.box, padding10), target |-> target]

\* the pose after zoomToFitGeometry(camera, controls, scene, fitPadding)
zoomToFitGeometry(position, target, children, padding10) ==
    LET b == calculateSceneBounds(children)
    IN  IF b.isNull \/ IsEmpty(b.box) THEN [position |-> position, target |-> target]
        ELSE [position |-> FitPosition(b.box, padding10), target |-> FitTarget(b.box)]

---------------------------------------------------------------------------
(* createCubes (index.ts) *)

\* a createCubes that forgets scene.remove(cube)
RemoveNone(children, existingCubes) == children

\* scene.remove(cube) for every cube of existingCubes
RemoveAll(children, existingCubes) ==
    SelectSeq(children, LAMBDA o : o.id \notin Ids(existingCubes))

\* the second forEach: acc are the meshes constructed so far; the k-th mesh
\* constructed by the call number gen is the object <<gen, k>>
RECURSIVE SecondPass(_, _, _, _, _)
SecondPass(records, index, center2, gen, acc) ==
    IF index > Len(records) THEN acc
    ELSE LET built == BuildRing(records[index], center2)
         IN  SecondPass(records, index + 1, center2, gen,
                        IF built.ok
                        THEN Append(acc, Polygon(<<gen, Len(acc) + 1>>, index, built.ring))
                        ELSE acc)

\* new Function('return ' + coordinatesString)() ran code carried by a record
RanPayloadCode(records) ==
    \E i \in 1..Len(records) : ~records[i].missing /\ records[i].effect

\* createCubes(tableData, scene, camera, controls, existingCubes), as the call
\* number gen: the scene, the returned list, the pose, the extent of the first
\* pass and whether payload code ran.  The geometry and material disposed by
\* the first forEach belong to meshes nothing refers to after the call.
createCubes(data, children, position, target, existingCubes, gen) ==
    LET cleared == RemoveAll(children, existingCubes)
    IN  IF ~data.present \/ Len(data.records) = 0
        THEN [scene |-> cleared, cubes |-> <<>>, extent |-> EmptyExtent,
              position |-> position, target |-> target, ran |-> FALSE]
        ELSE LET ext == FirstPass(EmptyExtent, data.records)
                 newCubes == SecondPass(data.records, 1, GlobalCenter2(ext), gen, <<>>)
                 attached == cleared \o newCubes
                 pose == zoomToFitGeometry(position, target, attached, fitPadding10)
             IN  [scene |-> attached, cubes |-> newCubes, extent |-> ext,
                  position |-> pose.position, target |-> pose.target,
                  ran |-> RanPayloadCode(data.records)]

-------------------------------------------------------------------------------------------------------------------------------------------------
(* The host feeds every update to createCubes with the list the previous   *)
(* call returned.  A behaviour holds at most MaxCalls updates; an update   *)
(* whose batch is drawn from all of Batches is the last one of its         *)
(* behaviour, the updates before it carry batches of CoreBatches.          *)

Update(data, last) ==
    /\ ~closed
    /\ calls < MaxCalls
    /\ \E out \in {createCubes(data, scene, cameraPosition, controlsTarget, cubes,
                                calls + 1)} :
           /\ scene' = out.scene
           /\ cubes' = out.cubes
           /\ cameraPosition' = out.position
           /\ controlsTarget' = out.target
           /\ extent' = out.extent
           /\ payloadCodeRan' = (payloadCodeRan \/ out.ran)
    /\ calls' = calls + 1
    /\ closed' = last
    /\ tableData' = data
    /\ prevCameraPosition' = cameraPosition
    /\ prevControlsTarget' = controlsTarget
    /\ UNCHANGED <<bounds, boundsScene, parsed, fitVars, controlVars, mouseVars>>

\* the data set changed: tableData.sortedRecordIds is an array of 0..MaxBatch ids
UpdateView == \E records \in CoreBatches : Update(DataSet(records), FALSE)

\* the same, with any batch
UpdateViewAny == \E records \in Batches : Update(DataSet(records), TRUE)

\* the data set is absent: tableData?.sortedRecordIds is undefined
UpdateViewNoData == Update(NoDataSet, FALSE)

NotParsed == [ring |-> Undefined, out |-> Null, by |-> "none"]
\* no fit call or frame yet
NoOp == [name |-> "none", padding10 |-> 0, duration |-> 0, pendingBefore |-> 0]
\* no fit call has found bounds yet
NoFit == [position |-> InitialPosition, target |-> InitialTarget, call |-> "none", ends |-> 0]
\* no mouse event yet
NoEvent == [type |-> "none", heldBefore |-> FALSE, rotationX |-> 0, rotationY |-> 0]
NoPress == [rotationX |-> 0, rotationY |-> 0, seen |-> FALSE, clientX |-> 0, clientY |-> 0]

Init ==
    /\ scene = <<>>
    /\ cubes = <<>>
    /\ cameraPosition = InitialPosition
    /\ controlsTarget = InitialTarget
    /\ calls = 0
    /\ closed = FALSE
    /\ tableData = NoDataSet
    /\ extent = EmptyExtent
    /\ payloadCodeRan = FALSE
    /\ prevCameraPosition = InitialPosition
    /\ prevControlsTarget = InitialTarget
    /\ bounds = NullBounds
    /\ boundsScene = <<>>
    /\ parsed = NotParsed
    /\ now = 0
    /\ loops = <<>>
    /\ lastOp = NoOp
    /\ fits = 0
    /\ lastFit = NoFit
    /\ released = <<>>
    /\ trace = <<>>
    /\ destroyed = 0
    /\ isMouseDown = FALSE
    /\ mouseX = 0
    /\ mouseY = 0
    /\ targetRotationX = 0
    /\ targetRotationY = 0
    /\ targetRotationOnMouseDownX = 0
    /\ targetRotationOnMouseDownY = 0
    /\ mouseXOnMouseDown = 0
    /\ mouseYOnMouseDown = 0
    /\ pointer = <<0, 0>>
    /\ lastEvent = NoEvent
    /\ presses = 0
    /\ press = NoPress

Next == UpdateView \/ UpdateViewAny \/ UpdateViewNoData

Spec == Init /\ [][Next]_vars

---------------------------------------------------------------------------
(* What the claims say of a batch, stated on the records themselves *)

\* the records of the last update
Records == IF tableData.present THEN tableData.records ELSE <<>>

\* the generated solids built from record i
SolidsOf(i) == {k \in 1..Len(cubes) : cubes[k].rec = i}

\* the outer ring of a payload value: the first element when that is itself a ring
OuterRing(val) ==
    IF /\ IsArray(val) /\ Len(val.e) > 0
       /\ IsArray(val.e[1]) /\ Len(val.e[1].e) > 0
       /\ IsArray(val.e[1].e[1])
    THEN val.e[1]
    ELSE val

\* a point with at least 2 numeric components
IsPoint(c) ==
    IsArray(c) /\ Len(c.e) >= 2 /\ c.e[1].t = "number" /\ c.e[2].t = "number"

\* the payload evaluates to an array value
YieldsArray(p) == ~p.missing /\ ~p.throws /\ IsArray(p.val)

\* the record parses to a valid ring: an array of at least 3 points
ParsesToRing(p) ==
    /\ YieldsArray(p)
    /\ Len(OuterRing(p.val).e) >= 3
    /\ \A j \in 1..Len(OuterRing(p.val).e) : IsPoint(OuterRing(p.val).e[j])

\* some point of the record's ring has fewer than 2 numeric components
HasMalformedPoint(p) ==
    /\ YieldsArray(p)
    /\ \E j \in 1..Len(OuterRing(p.val).e) : ~IsPoint(OuterRing(p.val).e[j])

\* the raw points of the records that parse to a valid ring
ParsedPoints ==
    UNION {{<<OuterRing(Records[i].val).e[j].e[1].n, OuterRing(Records[i].val).e[j].e[2].n>> :
               j \in 1..Len(OuterRing(Records[i].val).e)} :
           i \in {i \in 1..Len(Records) : ParsesToRing(Records[i])}}

\* the extent of a set of raw points
ExtentOf(points) ==
    IF points = {} THEN EmptyExtent
    ELSE [def |-> TRUE,
          minLon |-> SetMin({q[1] : q \in points}), maxLon |-> SetMax({q[1] : q \in points}),
          minLat |-> SetMin({q[2] : q \in points}), maxLat |-> SetMax({q[2] : q \in points})]

---------------------------------------------------------------------------
(* C1.  After any sequence of updates, each fed the list the previous call *)
(* returned, the generated meshes attached to the scene are exactly those  *)
(* the most recent call produced: none of an earlier call is attached,     *)
(* none of the latest call is missing, none is attached twice.             *)

C1_SceneIsLatestSet ==
    /\ \A k \in 1..Len(scene) : scene[k].id[1] = calls
    /\ Ids(scene) = Ids(cubes)
    /\ \A k \in 1..Len(cubes) : cubes[k].id[1] = calls
    /\ Cardinality(Ids(scene)) = Len(scene)

\* a second update, made while solids of the first were attached, attached solids
C1_Witness ==
    /\ calls = 2
    /\ prevCameraPosition.kind = "fit"
    /\ Len(cubes) = 2

---------------------------------------------------------------------------
(* C2.  The coordinate parser never executes payload text: a payload that  *)
(* is not a well-formed numeric-array literal is reported as a failure     *)
(* (its record yields no solid) and no code it carries is ever run.        *)

C2_NeverExecutesPayload ==
    /\ ~payloadCodeRan
    /\ \A i \in 1..Len(Records) : ~Records[i].literal => SolidsOf(i) = {}

---------------------------------------------------------------------------
(* C3.  A record whose payload fails to parse (malformed, not an array, a  *)
(* ring of fewer than 3 points) contributes no point to the global extent  *)
(* and yields no solid; every other record of the batch yields exactly one *)
(* solid.                                                                  *)

C3_FailedRecordsAreSkipped ==
    Len(Records) > 0 =>
        /\ extent = ExtentOf(ParsedPoints)
        /\ \A i \in 1..Len(Records) :
              Cardinality(SolidsOf(i)) = IF ParsesToRing(Records[i]) THEN 1 ELSE 0

\* C3, the scenario of the specification: one valid self-closing ring and one
\* unparsable payload give exactly one solid and the extent of the valid ring
C3_Scenario ==
    Records = <<ClosedSquare, SyntaxErr>> =>
        /\ Len(cubes) = 1
        /\ cubes[1].rec = 1
        /\ extent = [def |-> TRUE, minLon |-> 0, maxLon |-> 2, minLat |-> 0, maxLat |-> 2]

---------------------------------------------------------------------------
(* C4.  If no record of the batch parses to a valid ring (the empty batch  *)
(* included), nothing is attached and the camera position and the control  *)
(* target keep their prior values.                                         *)

C4_EmptyBatchLeavesPose ==
    (calls > 0 /\ \A i \in 1..Len(Records) : ~ParsesToRing(Records[i])) =>
        /\ cubes = <<>>
        /\ scene = <<>>
        /\ cameraPosition = prevCameraPosition
        /\ controlsTarget = prevControlsTarget

\* C4 on the batches whose records all throw, are missing or hold fewer than 3
\* elements: nothing is attached and the pose is unchanged
C4_OnThrowingAndShortRecords ==
    (calls > 0 /\ \A i \in 1..Len(Records) :
                     \/ ~YieldsArray(Records[i])
                     \/ Len(OuterRing(Records[i].val).e) < 3) =>
        /\ cubes = <<>>
        /\ scene = <<>>
        /\ cameraPosition = prevCameraPosition
        /\ controlsTarget = prevControlsTarget

---------------------------------------------------------------------------
(* C5.  For a valid closed-ring payload of N points the ring that is built *)
(* has N-1 points when the last point repeats the first, and N points when *)
(* it does not.                                                            *)

\* the last point of the ring repeats the first
RepeatsFirst(ring) == Len(ring.e) > 1 /\ ring.e[Len(ring.e)] = ring.e[1]

\* the number of points the claim gives the ring of payload p
ClaimedLength(p) ==
    LET ring == OuterRing(p.val)
    IN  IF RepeatsFirst(ring) THEN Len(ring.e) - 1 ELSE Len(ring.e)

C5_ClosingPointDropped ==
    \A k \in 1..Len(cubes) :
        ParsesToRing(Records[cubes[k].rec]) =>
            Len(cubes[k].ring) = ClaimedLength(Records[cubes[k].rec])

---------------------------------------------------------------------------
(* C6.  Every ring handed to shape and extrusion construction has at least *)
(* 3 points; a record whose ring has fewer than 3 points is skipped and    *)
(* yields no solid.                                                        *)

C6_RingsHaveThreePoints ==
    /\ \A k \in 1..Len(scene) : Len(scene[k].ring) >= 3
    /\ \A k \in 1..Len(cubes) : Len(cubes[k].ring) >= 3
    /\ \A i \in 1..Len(Records) :
          (YieldsArray(Records[i]) /\ Len(OuterRing(Records[i].val).e) < 3)
              => SolidsOf(i) = {}

\* a batch with a ring of 2 points, skipped, next to a record that gave a solid
C6_Witness ==
    \E i, j \in 1..Len(Records) :
        /\ YieldsArray(Records[i])
        /\ Len(OuterRing(Records[i].val).e) = 2
        /\ SolidsOf(i) = {}
        /\ SolidsOf(j) # {}

---------------------------------------------------------------------------
(* C7.  If a point of a record's ring has fewer than 2 numeric components, *)
(* the whole record is dropped as malformed: it yields no solid, and none  *)
(* of its points is used, in the extent pass or in the solid pass.         *)

C7_MalformedPointAbortsRecord ==
    \A i \in 1..Len(Records) :
        HasMalformedPoint(Records[i]) =>
            /\ SolidsOf(i) = {}
            /\ extent = FirstPass(EmptyExtent, [Records EXCEPT ![i] = MissingRecord])

---------------------------------------------------------------------------
(* C8.  Every point (x, y) of every generated solid is                     *)
(* ((x - centerX) * S, (y - centerY) * S), with (centerX, centerY) the     *)
(* midpoint of the extent over all parsed records of the batch: one centre *)
(* for the batch, never one per record.                                    *)

\* the midpoint, doubled, of the extent of the records that parse
ParsedCenter2 ==
    LET e == ExtentOf(ParsedPoints)
    IN  <<e.minLon + e.maxLon, e.minLat + e.maxLat>>

\* the point the claim gives for the raw point coord, doubled
ClaimedPoint(coord) ==
    <<N((2 * coord.e[1].n - ParsedCenter2[1]) * scale),
      N((2 * coord.e[2].n - ParsedCenter2[2]) * scale)>>

C8_NormalisedByGlobalCentre ==
    \A k \in 1..Len(cubes) :
        ParsesToRing(Records[cubes[k].rec]) =>
            \A j \in 1..Len(cubes[k].ring) :
                j <= Len(OuterRing(Records[cubes[k].rec].val).e) =>
                    cubes[k].ring[j] = ClaimedPoint(OuterRing(Records[cubes[k].rec].val).e[j])

\* C8 on the batches whose records all parse to a valid ring
C8_OnValidBatches ==
    (\A i \in 1..Len(Records) : ParsesToRing(Records[i])) => C8_NormalisedByGlobalCentre

---------------------------------------------------------------------------
(* The bounds harness: a scene of synthetic solids, the helper meshes and  *)
(* the light of the viewer's init, and zoomToFitGeometry on it.  Boxes and *)
(* positions are in halves of a scene unit.  A behaviour builds a scene    *)
(* and ends with one fit.                                                  *)

\* generated solids: synthetic boxes, two of them placed off the origin
SolidA == SceneObject(<<1, 1>>, "mesh", "solid", 1, <<>>,
                      Box(<<-2, -1, 0>>, <<2, 1, 3>>), Identity)
SolidB == SceneObject(<<1, 2>>, "mesh", "solid", 2, <<>>,
                      Box(<<0, 0, 0>>, <<1, 1, 1>>), Placement(FALSE, <<6, 0, -6>>))
SolidC == SceneObject(<<1, 3>>, "mesh", "solid", 3, <<>>,
                      Box(<<-1, -4, -1>>, <<1, -2, 1>>), Placement(TRUE, <<-3, 0, 0>>))
\* this._cube: new THREE.Mesh(new THREE.BoxGeometry(), material)
HelperCube == SceneObject(<<0, 1>>, "mesh", "helper", 0, <<>>,
                          Box(<<-1, -1, -1>>, <<1, 1, 1>>), Identity)
\* plane: PlaneGeometry(500, 500), rotation.x = -PI / 2, position.y = -1
GroundPlane == SceneObject(<<0, 2>>, "mesh", "helper", 0, <<>>,
                           Box(<<-500, -500, 0>>, <<500, 500, 0>>),
                           Placement(TRUE, <<0, -2, 0>>))
\* light: new THREE.DirectionalLight(0xffffff, 1), position (5, 5, 5); no geometry
Light == SceneObject(<<0, 3>>, "light", "helper", 0, <<>>, NaNBox,
                     Placement(FALSE, <<10, 10, 10>>))

SceneObjects == {SolidA, SolidB, SolidC, HelperCube, GroundPlane, Light}

\* fitPadding: the default 1.2 and the 1.3 of createCubes, in tenths
Paddings == {12, fitPadding10}

\* scene.add(object): appended to children, after leaving its place if attached
SceneAdd(object) ==
    /\ ~closed
    /\ Len(SelectSeq(scene, LAMBDA o : o.id # object.id)) < MaxScene
    /\ scene' = Append(SelectSeq(scene, LAMBDA o : o.id # object.id), object)
    /\ UNCHANGED <<cubes, cameraPosition, controlsTarget, calls, closed, tableData,
                   extent, payloadCodeRan, prevCameraPosition, prevControlsTarget,
                   bounds, boundsScene, parsed, fitVars, controlVars, mouseVars>>

\* scene.remove(object)
SceneRemove(object) ==
    /\ ~closed
    /\ object.id \in Ids(scene)
    /\ scene' = SelectSeq(scene, LAMBDA o : o.id # object.id)
    /\ UNCHANGED <<cubes, cameraPosition, controlsTarget, calls, closed, tableData,
                   extent, payloadCodeRan, prevCameraPosition, prevControlsTarget,
                   bounds, boundsScene, parsed, fitVars, controlVars, mouseVars>>

\* zoomToFitGeometry(camera, controls, scene, fitPadding); bounds is its local
\* const bounds, boundsScene the scene it was computed from
ZoomToFit(padding10) ==
    /\ ~closed
    /\ closed' = TRUE
    /\ \E pose \in {zoomToFitGeometry(cameraPosition, controlsTarget, scene, padding10)} :
          /\ cameraPosition' = pose.position
          /\ controlsTarget' = pose.target
    /\ bounds' = calculateSceneBounds(scene)
    /\ boundsScene' = scene
    /\ prevCameraPosition' = cameraPosition
    /\ prevControlsTarget' = controlsTarget
    /\ UNCHANGED <<scene, cubes, calls, tableData, extent, payloadCodeRan, parsed,
                   fitVars, controlVars, mouseVars>>

NextBounds ==
    \/ \E object \in SceneObjects : SceneAdd(object)
    \/ \E object \in SceneObjects : SceneRemove(object)
    \/ \E padding10 \in Paddings : ZoomToFit(padding10)

SpecBounds == Init /\ [][NextBounds]_vars

---------------------------------------------------------------------------
(* What the claims say of a computed bounding volume *)

\* the world-space box of an attached object
WorldBox(object) == ApplyMatrix4(object.box, object.world)

\* the meshes, and the generated solids, of the scene the bounds were computed from
MeshesSeen == {boundsScene[k] : k \in {k \in 1..Len(boundsScene) : boundsScene[k].kind = "mesh"}}
SolidsSeen == {o \in MeshesSeen : o.role = "solid"}

\* the smallest box holding the world-space boxes of a non-empty set of objects
Hull(objects) ==
    LET lo(a) == SetMin({WorldBox(o).min[a] : o \in objects})
        hi(a) == SetMax({WorldBox(o).max[a] : o \in objects})
    IN  Box(<<lo(1), lo(2), lo(3)>>, <<hi(1), hi(2), hi(3)>>)

\* box a lies within box b
Within(a, b) == \A x \in Axes : b.min[x] <= a.min[x] /\ a.max[x] <= b.max[x]

---------------------------------------------------------------------------
(* C9.  As claimed: calculateSceneBounds takes into account only the       *)
(* generated solids and ignores helper meshes such as a ground plane; with *)
(* no generated solid in the scene it returns null, whatever helpers the   *)
(* scene holds.                                                            *)

C9_OnlyGeneratedSolids ==
    /\ bounds.isNull <=> SolidsSeen = {}
    /\ ~bounds.isNull => bounds.box = Hull(SolidsSeen)

(* C9, amended.  calculateSceneBounds takes into account every mesh of the *)
(* scene, helper meshes such as a ground plane included, and ignores only  *)
(* the objects that are not meshes; it returns null exactly when the scene *)
(* holds no mesh, and otherwise a volume that holds the box of every mesh, *)
(* helper or solid.                                                        *)

C9_EveryMeshCounts ==
    /\ bounds.isNull <=> MeshesSeen = {}
    /\ ~bounds.isNull => \A o \in MeshesSeen : Within(WorldBox(o), bounds.box)
    /\ bounds = calculateSceneBounds(SelectSeq(boundsScene, LAMBDA o : o.kind = "mesh"))

\* bounds computed of a scene that holds the ground plane, the light and no solid
C9_Witness ==
    /\ closed
    /\ SolidsSeen = {}
    /\ GroundPlane \in MeshesSeen
    /\ \E k \in 1..Len(boundsScene) : boundsScene[k] = Light
    /\ ~bounds.isNull

---------------------------------------------------------------------------
(* C10.  For every non-empty scene the volume computed has, on each axis,  *)
(* min equal to the minimum and max equal to the maximum over the          *)
(* world-space boxes of all attached meshes, whatever the traversal order. *)

---------------------------------------------------------------------------
(* The parser harness: the stand-alone parsers applied to single payloads *)

\* '{"type":"Polygon","coordinates":[[[0,0],[2,0],[2,2],[0,2],[0,0]]]}'
GeoClosedSquare ==
    GeoJSON("closedSquare", FALSE, "Polygon", Arr(<<ClosedSquare.val>>))
\* a polygon whose ring of 4 points does not repeat its first point
GeoOpenQuad ==
    GeoJSON("openQuad", FALSE, "Polygon",
            Arr(<<Arr(<<Pt(0, 0), Pt(2, 0), Pt(2, 2), Pt(0, 2)>>)>>))
\* a polygon whose ring is 2 points and the repeated first point
GeoClosedPair ==
    GeoJSON("closedPair", FALSE, "Polygon", Arr(<<Arr(<<Pt(0, 0), Pt(2, 0), Pt(0, 0)>>)>>))
\* '{"type":"Point","coordinates":[1,2]}'
GeoPoint == GeoJSON("point", FALSE, "Point", Arr(<<Num(1), Num(2)>>))
\* a polygon whose coordinates are numbers
GeoFlat == GeoJSON("flat", FALSE, "Polygon", Arr(<<Num(1), Num(2), Num(3)>>))
\* text that is no JSON
GeoInvalid == GeoJSON("invalid", TRUE, "", Undefined)

GeoInputs == {GeoClosedSquare, GeoOpenQuad, GeoClosedPair, GeoPoint, GeoFlat, GeoInvalid}

ParseCoordinates(p) ==
    /\ ~p.missing
    /\ parsed' = [ring |-> OuterRing(p.val), out |-> parseCoordinates(p), by |-> "parseCoordinates"]
    /\ payloadCodeRan' = (payloadCodeRan \/ p.effect)
    /\ UNCHANGED <<scene, cubes, cameraPosition, controlsTarget, calls, closed, tableData,
                   extent, prevCameraPosition, prevControlsTarget, bounds, boundsScene,
                   fitVars, controlVars, mouseVars>>

ParseGeoJSON(g) ==
    /\ parsed' = [ring |-> IF g.throws THEN Undefined ELSE Index(g.coordinates, 0),
                  out |-> parseGeoJSON(g),
                  by |-> "parseGeoJSON"]
    /\ UNCHANGED <<scene, cubes, cameraPosition, controlsTarget, calls, closed, tableData,
                   extent, payloadCodeRan, prevCameraPosition, prevControlsTarget, bounds,
                   boundsScene, fitVars, controlVars, mouseVars>>

NextParse ==
    \/ \E p \in Payloads : ParseCoordinates(p)
    \/ \E g \in GeoInputs : ParseGeoJSON(g)

SpecParse == Init /\ [][NextParse]_vars

\* the ring given to the parser is a valid ring: at least 3 points of 2 numbers
ValidRingGiven ==
    /\ IsArray(parsed.ring)
    /\ Len(parsed.ring.e) >= 3
    /\ \A j \in 1..Len(parsed.ring.e) : IsPoint(parsed.ring.e[j])

\* C5 on the stand-alone parsers: N-1 points when the last repeats the first, else N
C5_OnStandAloneParsers ==
    (ValidRingGiven /\ ~parsed.out.isNull) =>
        Len(parsed.out.points) =
            IF RepeatsFirst(parsed.ring) THEN Len(parsed.ring.e) - 1 ELSE Len(parsed.ring.e)

\* C5 on parseGeoJSON given a ring that repeats its first point
C5_OnClosedGeoJSON ==
    (parsed.by = "parseGeoJSON" /\ ValidRingGiven /\ RepeatsFirst(parsed.ring)
        /\ ~parsed.out.isNull) =>
        Len(parsed.out.points) = Len(parsed.ring.e) - 1

\* C6 on the stand-alone parsers: a ring returned has at least 3 points
C6_OnStandAloneParsers == ~parsed.out.isNull => Len(parsed.out.points) >= 3

\* C7 on parseCoordinates: a malformed point gives null
C7_OnParseCoordinates ==
    (parsed.by = "parseCoordinates" /\ IsArray(parsed.ring)
        /\ \E j \in 1..Len(parsed.ring.e) : ~IsPoint(parsed.ring.e[j])) => parsed.out.isNull

---------------------------------------------------------------------------
(* The fit harness: static and animated fits of a scene, and the frames    *)
(* the host delivers.  Time is in ticks of performance.now().  A behaviour *)
(* builds a scene, then issues fits while frames are delivered.            *)

MaxFits == 2        \* fit calls per behaviour, static and animated
MaxDuration == 2    \* longest duration of an animated fit, in ticks
MaxTime == 3        \* last tick a frame is delivered at

\* a generated mesh all of whose vertices coincide: a box of zero size on every axis
PointMesh == SceneObject(<<1, 4>>, "mesh", "solid", 4, <<>>,
                         Box(<<2, 2, 2>>, <<2, 2, 2>>), Identity)

FitObjects == {SolidA, PointMesh, Light}
Durations == 1..MaxDuration
\* time between two frames, in ticks
FrameSteps == {1}

Cube(x) == x * x * x

\* easeProgress = 1 - Math.pow(1 - progress, 3) with progress =
\* Math.min(elapsed / duration, 1), as the fraction num / den
Ease(elapsed, duration) ==
    LET e == IF elapsed < duration THEN elapsed ELSE duration
    IN  [num |-> Cube(duration) - Cube(duration - e), den |-> Cube(duration)]

\* lerpVectors(v1, v2, alpha): v1 + (v2 - v1) * alpha
lerpVectors(v1, v2, alpha) ==
    IF v1.kind = "NaN" THEN v1
    ELSE IF v2.kind = "NaN" THEN v2
    ELSE IF alpha.num = 0 \/ v1 = v2 THEN v1
    ELSE IF alpha.num = alpha.den THEN v2
    ELSE [kind |-> "lerp", num |-> alpha.num, den |-> alpha.den, v1 |-> v1, v2 |-> v2]

\* the closure of one animateZoomToFit call: the constants animate() reads, and
\* whether a callback of it is scheduled with requestAnimationFrame
Loop(startPosition, startTarget, targetPosition, center, startTime, duration) ==
    [duration |-> duration, startPosition |-> startPosition,
     startTarget |-> startTarget, targetPosition |-> targetPosition,
     center |-> center, startTime |-> startTime,
     scheduled |-> FALSE, frames |-> 0, progressOne |-> FALSE]

\* an animate() that asks for another frame whatever the progress
animateForever(loop, time) ==
    LET elapsed == time - loop.startTime
        easeProgress == Ease(elapsed, loop.duration)
    IN  [position |-> lerpVectors(loop.startPosition, loop.targetPosition, easeProgress),
         target |-> lerpVectors(loop.startTarget, loop.center, easeProgress),
         loop |-> [loop EXCEPT !.scheduled = TRUE,
                               !.frames = @ + 1,
                               !.progressOne = ~(elapsed < loop.duration)]]

\* one run of animate() of a closure at the time given: the pose it writes and
\* the closure, scheduled again when progress < 1
animate(loop, time) ==
    LET elapsed == time - loop.startTime
        easeProgress == Ease(elapsed, loop.duration)
    IN  [position |-> lerpVectors(loop.startPosition, loop.targetPosition, easeProgress),
         target |-> lerpVectors(loop.startTarget, loop.center, easeProgress),
         loop |-> [loop EXCEPT !.scheduled = elapsed < loop.duration,
                               !.frames = @ + 1,
                               !.progressOne = ~(elapsed < loop.duration)]]

\* animateZoomToFit(camera, controls, scene, fitPadding, duration) called at the
\* time given: nothing when there are no bounds, else the closure after its
\* first, synchronous animate() and the pose that run wrote
animateZoomToFit(position, target, children, padding10, duration, time) ==
    LET b == calculateSceneBounds(children)
    IN  IF b.isNull \/ IsEmpty(b.box)
        THEN [position |-> position, target |-> target, loop |-> <<>>, started |-> FALSE]
        ELSE LET first == animate(Loop(position, target, FitPosition(b.box, padding10),
                                       FitTarget(b.box), time, duration), time)
             IN  [position |-> first.position, target |-> first.target, loop |-> <<first.loop>>,
                  started |-> TRUE]

\* the callbacks of one frame, in the order they were scheduled: the closures
\* from index i on, given the pose the earlier ones left
RECURSIVE RunFrame(_, _, _, _, _)
RunFrame(ls, i, position, target, time) ==
    IF i > Len(ls) THEN [loops |-> ls, position |-> position, target |-> target]
    ELSE IF ~ls[i].scheduled THEN RunFrame(ls, i + 1, position, target, time)
    ELSE LET r == animate(ls[i], time)
         IN  RunFrame([ls EXCEPT ![i] = r.loop], i + 1, r.position, r.target, time)

Pending(ls) == Cardinality({i \in 1..Len(ls) : ls[i].scheduled})

pipelineVars == <<cubes, calls, tableData, extent, payloadCodeRan, parsed>>

\* zoomToFitGeometry(camera, controls, scene, fitPadding) called by the host
StaticFit(padding10) ==
    /\ fits < MaxFits
    /\ fits' = fits + 1
    /\ closed' = TRUE
    /\ \E pose \in {zoomToFitGeometry(cameraPosition, controlsTarget, scene, padding10)} :
          /\ cameraPosition' = pose.position
          /\ controlsTarget' = pose.target
    /\ bounds' = calculateSceneBounds(scene)
    /\ boundsScene' = scene
    /\ prevCameraPosition' = cameraPosition
    /\ prevControlsTarget' = controlsTarget
    /\ lastOp' = [name |-> "zoomToFitGeometry", padding10 |-> padding10, duration |-> 0,
                  pendingBefore |-> Pending(loops)]
    /\ lastFit' = LET b == calculateSceneBounds(scene)
                  IN  IF b.isNull \/ IsEmpty(b.box) THEN lastFit
                      ELSE [position |-> FitPosition(b.box, padding10),
                            target |-> FitTarget(b.box),
                            call |-> "zoomToFitGeometry", ends |-> now]
    /\ UNCHANGED <<scene, now, loops, pipelineVars, controlVars, mouseVars>>

\* animateZoomToFit(camera, controls, scene, fitPadding, duration) called by the host
AnimatedFit(padding10, duration) ==
    /\ fits < MaxFits
    /\ now + duration <= MaxTime
    /\ fits' = fits + 1
    /\ closed' = TRUE
    /\ \E r \in {animateZoomToFit(cameraPosition, controlsTarget, scene, padding10,
                                  duration, now)} :
          /\ cameraPosition' = r.position
          /\ controlsTarget' = r.target
          /\ loops' = loops \o r.loop
    /\ bounds' = calculateSceneBounds(scene)
    /\ boundsScene' = scene
    /\ prevCameraPosition' = cameraPosition
    /\ prevControlsTarget' = controlsTarget
    /\ lastOp' = [name |-> "animateZoomToFit", padding10 |-> padding10,
                  duration |-> duration, pendingBefore |-> Pending(loops)]
    /\ lastFit' = LET b == calculateSceneBounds(scene)
                  IN  IF b.isNull \/ IsEmpty(b.box) THEN lastFit
                      ELSE [position |-> FitPosition(b.box, padding10),
                            target |-> FitTarget(b.box),
                            call |-> "animateZoomToFit", ends |-> now + duration]
    /\ UNCHANGED <<scene, now, pipelineVars, controlVars, mouseVars>>

\* the host delivers a frame dt ticks after the last: every scheduled callback runs
Frame(dt) ==
    /\ Pending(loops) > 0
    /\ now + dt <= MaxTime
    /\ now' = now + dt
    /\ \E r \in {RunFrame(loops, 1, cameraPosition, controlsTarget, now + dt)} :
          /\ loops' = r.loops
          /\ cameraPosition' = r.position
          /\ controlsTarget' = r.target
    /\ prevCameraPosition' = cameraPosition
    /\ prevControlsTarget' = controlsTarget
    /\ lastOp' = [name |-> "frame", padding10 |-> 0, duration |-> dt,
                  pendingBefore |-> Pending(loops)]
    /\ UNCHANGED <<scene, bounds, boundsScene, fits, lastFit, closed, pipelineVars,
                   controlVars, mouseVars>>

Frames == \E dt \in FrameSteps : Frame(dt)

NextFit ==
    \/ \E object \in FitObjects : SceneAdd(object)
    \/ \E padding10 \in Paddings : StaticFit(padding10)
    \/ \E padding10 \in Paddings, duration \in Durations : AnimatedFit(padding10, duration)
    \/ Frames

SpecFit == Init /\ [][NextFit]_vars

\* a frame can be delivered: ENABLED <<Frames>>_vars, written as a state predicate
FrameEnabled == Pending(loops) > 0 /\ now + 1 <= MaxTime
\* the host keeps delivering frames, weak fairness of Frames written out:
\* a frame is delivered again and again unless none is due again and again
FramesKeepComing == []<>(~FrameEnabled) \/ []<><<Frames>>_vars
SpecFitFair == SpecFit /\ FramesKeepComing


---------------------------------------------------------------------------
(* What the claims say of a fit call, stated on the state right after it *)

\* the last operation was a fit call, static or animated
FitJustCalled == lastOp.name \in {"zoomToFitGeometry", "animateZoomToFit"}

\* a bounding volume of zero size on all three axes
Degenerate(b) == ~b.isNull /\ ~b.box.nan /\ \A a \in Axes : b.box.max[a] = b.box.min[a]

\* the call changed neither the pose nor the number of scheduled callbacks
LeftAlone ==
    /\ cameraPosition = prevCameraPosition
    /\ controlsTarget = prevControlsTarget
    /\ Pending(loops) = lastOp.pendingBefore

---------------------------------------------------------------------------
(* C11.  The static fit and the animated fit are no-ops when the bounding  *)
(* volume is empty or degenerate (zero size on all three axes): camera     *)
(* position, orientation and control target are unchanged after the call   *)
(* and no animation frame is scheduled.  (The orientation is that of       *)
(* lookAt(controls.target) from the position: unchanged when both are.)    *)

C11_NoOpOnEmptyOrDegenerate ==
    (FitJustCalled /\ (bounds.isNull \/ Degenerate(bounds))) => LeftAlone

\* the same of the empty volume alone: no mesh in the scene
C11_OnEmptyBounds == (FitJustCalled /\ bounds.isNull) => LeftAlone

\* a fit of a scene of one mesh of zero size moved the camera off its prior pose
C11_DegenerateMovesCamera ==
    ~(FitJustCalled /\ Degenerate(bounds) /\ cameraPosition # prevCameraPosition
        /\ lastOp.name = "zoomToFitGeometry")

\* an animated fit of a degenerate volume scheduled a frame
C11_DegenerateSchedulesFrame ==
    ~(lastOp.name = "animateZoomToFit" /\ Degenerate(bounds)
        /\ Pending(loops) > lastOp.pendingBefore)


---------------------------------------------------------------------------
(* C12.  After a static fit on a non-empty bounding volume the control     *)
(* target is the volume's center and the camera sits at center +           *)
(* unit(1, 0.8, 1) * distance with distance = (maxDim / 2) / tan(fov / 2)  *)
(* * padding; the distance is linear in the padding (doubling the padding  *)
(* doubles it) and the result does not depend on the camera's previous     *)
(* pose: it is a function of the scene and the padding alone.              *)

\* center (doubled) and largest dimension of the volume of the meshes seen
SeenCenter2 ==
    LET h == Hull(MeshesSeen)
    IN  <<h.min[1] + h.max[1], h.min[2] + h.max[2], h.min[3] + h.max[3]>>
SeenMaxDim ==
    LET h == Hull(MeshesSeen)
    IN  SetMax({h.max[1] - h.min[1], h.max[2] - h.min[2], h.max[3] - h.min[3]})

C12_StaticFitPose ==
    (lastOp.name = "zoomToFitGeometry" /\ MeshesSeen # {}) =>
        /\ controlsTarget = [kind |-> "center", c2 |-> SeenCenter2]
        /\ cameraPosition.kind = "fit"
        /\ cameraPosition.c2 = SeenCenter2
        /\ cameraPosition.dist = SeenMaxDim * lastOp.padding10
        /\ FitPosition(bounds.box, 2 * lastOp.padding10).dist = 2 * cameraPosition.dist
        /\ \A other \in Paddings :
              FitPosition(bounds.box, other).dist * lastOp.padding10
                  = cameraPosition.dist * other

\* a static fit of a volume of positive size, issued while an animation had the
\* camera between two poses
C12_Witness ==
    /\ lastOp.name = "zoomToFitGeometry"
    /\ MeshesSeen # {}
    /\ SeenMaxDim > 0
    /\ prevCameraPosition.kind = "lerp"
    /\ prevControlsTarget.kind = "lerp"
    /\ cameraPosition.dist > 0


---------------------------------------------------------------------------
(* C13.  A single animated fit with positive duration, the host delivering *)
(* frames, eventually reaches progress = 1 and then schedules no further   *)
(* frame; at that last frame the camera position is the static-fit target  *)
(* position and the control target the center of the bounds; in every      *)
(* earlier frame progress < 1 and exactly one further callback is          *)
(* scheduled.                                                              *)

\* the i-th animated fit has run its last frame
Finished(i) == Len(loops) >= i /\ loops[i].progressOne /\ ~loops[i].scheduled

\* a closure has a callback scheduled exactly as long as its progress was below 1
OneCallbackUntilDone ==
    \A i \in 1..Len(loops) :
        /\ loops[i].scheduled <=> ~loops[i].progressOne
        /\ loops[i].frames >= 1
        /\ loops[i].progressOne <=> now >= loops[i].startTime + loops[i].duration

\* the only fit of the behaviour, once finished, has left the pose of the static fit
SingleFitEndsOnTarget ==
    (fits = 1 /\ Finished(1)) =>
        /\ cameraPosition = FitPosition(bounds.box, loops[1].targetPosition.pad)
        /\ controlsTarget = FitTarget(bounds.box)
        /\ Pending(loops) = 0

C13_AnimationCompletes ==
    /\ [](OneCallbackUntilDone /\ SingleFitEndsOnTarget)
    /\ \A i \in 1..MaxFits : (Len(loops) >= i) ~> Finished(i)

\* a single animated fit of a volume of positive size finished at its third run
C13_Witness ==
    /\ fits = 1
    /\ Finished(1)
    /\ loops[1].frames = 3
    /\ cameraPosition.kind = "fit"
    /\ cameraPosition.dist > 0
    /\ cameraPosition # loops[1].startPosition


---------------------------------------------------------------------------
(* C16.  When a second fit, animated or static, is issued before an        *)
(* earlier animated fit has finished, both frame loops keep running and    *)
(* write the same camera and control target; once all loops have           *)
(* terminated, camera position and control target are the target of the    *)
(* most recently issued fit, for every interleaving of frames and every    *)
(* pair of durations.                                                      *)

\* two camera positions are the same point
SamePosition(p, q) ==
    IF p.kind = "fit" /\ q.kind = "fit" THEN p.c2 = q.c2 /\ p.dist = q.dist ELSE p = q

\* every loop has terminated and some fit call found bounds
AllLoopsDone == lastFit.call # "none" /\ Pending(loops) = 0

OnLatestTarget ==
    /\ SamePosition(cameraPosition, lastFit.position)
    /\ controlsTarget = lastFit.target

C16_LatestFitWins ==
    /\ OneCallbackUntilDone
    /\ AllLoopsDone => OnLatestTarget

\* the part that holds: no loop is cancelled by a later fit, and the latest fit
\* wins when it is an animated one that ends no earlier than every other loop
C16_LatestWinsWhenItEndsLast ==
    /\ OneCallbackUntilDone
    /\ (AllLoopsDone /\ lastFit.call = "animateZoomToFit"
          /\ \A i \in 1..Len(loops) : loops[i].startTime + loops[i].duration <= lastFit.ends)
        => OnLatestTarget

\* an earlier, longer animation ended on its own target after a later, shorter one
C16_EarlierLoopEndsLast ==
    ~(/\ AllLoopsDone
      /\ Len(loops) = 2
      /\ lastFit.call = "animateZoomToFit"
      /\ SamePosition(cameraPosition, loops[1].targetPosition)
      /\ ~SamePosition(cameraPosition, lastFit.position))

\* a static fit issued during an animation was overwritten by the animation
C16_StaticFitOverwritten ==
    ~(/\ AllLoopsDone
      /\ lastFit.call = "zoomToFitGeometry"
      /\ ~SamePosition(cameraPosition, lastFit.position))


---------------------------------------------------------------------------
(* The control harness: the class My3DViewerControl of cameraUtils.ts      *)
(* (updateView, its private createCubes, destroy).  Lengths are in halves  *)
(* of a scene unit.                                                        *)

MaxDestroys == 2    \* destroy() calls per behaviour

Event(op, id) == [id |-> id, op |-> op]

\* cube.geometry.dispose() and cube.material.dispose() counted for the mesh id
Dispose(rel, id) ==
    [rel EXCEPT ![id] = [geometry |-> @.geometry + 1, material |-> @.material + 1]]

\* this._cubes.forEach(cube => { remove; geometry.dispose(); material.dispose() })
\* from index i on: the scene, the dispose counts and the operations, in order
RECURSIVE RetireCubes(_, _, _, _, _)
RetireCubes(cs, i, children, rel, ops) ==
    IF i > Len(cs) THEN [scene |-> children, released |-> rel, trace |-> ops]
    ELSE RetireCubes(cs, i + 1,
                     SelectSeq(children, LAMBDA o : o.id # cs[i].id),
                     Dispose(rel, cs[i].id),
                     ops \o <<Event("remove", cs[i].id), Event("disposeGeometry", cs[i].id),
                              Event("disposeMaterial", cs[i].id)>>)

\* Math.ceil(Math.sqrt(n)) for the batch sizes of the model
GridSize(n) == IF n = 0 THEN 0 ELSE IF n = 1 THEN 1 ELSE IF n <= 4 THEN 2 ELSE 3

\* new THREE.Mesh(new THREE.BoxGeometry(2, 2, 2), material) at its place of the grid
GridCube(id, index, gridSize) ==
    LET row == index \div gridSize
        col == index % gridSize
        offset == (gridSize - 1) * 3
    IN  SceneObject(id, "mesh", "solid", index + 1, <<>>,
                    Box(<<-2, -2, -2>>, <<2, 2, 2>>),
                    Placement(FALSE, <<col * 6 - offset, 0, row * 6 - offset>>))

\* the forEach over sortedRecordIds from index on; a record that is undefined
\* makes record.getFormattedValue throw, which ends the handler
RECURSIVE AddCubes(_, _, _, _, _)
AddCubes(records, index, gridSize, gen, acc) ==
    IF index >= Len(records) THEN [acc EXCEPT !.threw = FALSE]
    ELSE IF records[index + 1].missing THEN [acc EXCEPT !.threw = TRUE]
    ELSE LET id == <<gen, Len(acc.cubes) + 1>>
             cube == GridCube(id, index, gridSize)
         IN  AddCubes(records, index + 1, gridSize, gen,
                      [acc EXCEPT !.scene = Append(@, cube),
                                  !.cubes = Append(@, cube),
                                  !.released = [i \in DOMAIN @ \cup {id} |->
                                                   IF i = id
                                                   THEN [geometry |-> 0, material |-> 0]
                                                   ELSE @[i]],
                                  !.trace = Append(@, Event("add", id))])

\* camera.position.set(distance, distance * 0.5, distance), distance =
\* Math.max(gridSize * 3, 10); kept doubled
GridPosition(gridSize) ==
    LET distance == IF gridSize * 3 > 10 THEN gridSize * 3 ELSE 10
    IN  [kind |-> "set", c2 |-> <<2 * distance, distance, 2 * distance>>,
         maxDim |-> 0, pad |-> 0, dist |-> 0]

\* the private createCubes(tableData) of the class, as the call number gen
ControlCreateCubes(data, children, cs, rel, position, gen) ==
    LET retired == RetireCubes(cs, 1, children, rel, <<>>)
        start == [scene |-> retired.scene, cubes |-> <<>>, released |-> retired.released,
                  trace |-> retired.trace, position |-> position, threw |-> FALSE]
    IN  IF ~data.present THEN start
        ELSE LET gridSize == GridSize(Len(data.records))
                 built == AddCubes(data.records, 0, gridSize, gen, start)
             IN  IF built.threw THEN built
                 ELSE [built EXCEPT !.position = GridPosition(gridSize)]

\* updateView(context): createCubes only 'if (tableData && tableData.sortedRecordIds)'
ControlUpdateView(data) ==
    /\ calls < MaxCalls
    /\ calls' = calls + 1
    /\ tableData' = data
    /\ prevCameraPosition' = cameraPosition
    /\ IF data.present
       THEN \E out \in {ControlCreateCubes(data, scene, cubes, released, cameraPosition,
                                            calls + 1)} :
               /\ scene' = out.scene
               /\ cubes' = out.cubes
               /\ released' = out.released
               /\ cameraPosition' = out.position
               /\ trace' = <<Event("updateView", <<calls + 1, 0>>)>> \o out.trace
       ELSE /\ trace' = <<Event("updateView", <<calls + 1, 0>>)>>
            /\ UNCHANGED <<scene, cubes, released, cameraPosition>>
    /\ UNCHANGED <<controlsTarget, closed, extent, payloadCodeRan, prevControlsTarget,
                   bounds, boundsScene, parsed, destroyed, fitVars, mouseVars>>

\* destroy(): every cube of this._cubes is removed and disposed; the list is kept
Destroy ==
    /\ destroyed < MaxDestroys
    /\ destroyed' = destroyed + 1
    /\ \E out \in {RetireCubes(cubes, 1, scene, released, <<>>)} :
          /\ scene' = out.scene
          /\ released' = out.released
          /\ trace' = <<Event("destroy", <<calls, 0>>)>> \o out.trace
    /\ UNCHANGED <<cubes, cameraPosition, controlsTarget, calls, closed, tableData, extent,
                   payloadCodeRan, prevCameraPosition, prevControlsTarget, bounds,
                   boundsScene, parsed, fitVars, mouseVars>>

\* the batches of the control harness: rows, some of them without a record
Rows == SeqsUpTo({OpenTriangle, MissingRecord}, MaxBatch)

NextControl ==
    \/ \E records \in Rows : ControlUpdateView(DataSet(records))
    \/ ControlUpdateView(NoDataSet)
    \/ Destroy

SpecControl == Init /\ [][NextControl]_vars


---------------------------------------------------------------------------
(* What the claims say of the control's meshes *)

\* the last handler was updateView
UpdateJustHandled == trace # <<>> /\ trace[1].op = "updateView"

\* the ids of the meshes constructed so far
Constructed == DOMAIN released

RetireOps == {"remove", "disposeGeometry", "disposeMaterial"}

\* in the last handler no mesh was attached before a mesh was removed or disposed
RetiredBeforeAttached ==
    \A i, j \in 1..Len(trace) :
        (i < j /\ trace[i].op = "add") => trace[j].op \notin RetireOps

\* no mesh of an earlier update is attached, and each was released
PreviousSetRetired ==
    /\ \A k \in 1..Len(scene) : scene[k].id[1] = calls
    /\ \A id \in Constructed :
          id[1] < calls => (released[id].geometry >= 1 /\ released[id].material >= 1)

---------------------------------------------------------------------------
(* C14.  Within one update every mesh of the previous set is detached from *)
(* the scene and has its geometry and material released before any mesh of *)
(* the new set is attached; this also happens when the new batch is empty  *)
(* or missing, so that after such an update no previously generated mesh   *)
(* is attached.                                                            *)

C14_RetiredOnEveryUpdate ==
    UpdateJustHandled => (RetiredBeforeAttached /\ PreviousSetRetired)

\* the same when the data set and its sortedRecordIds are there, empty or not
C14_OnPresentBatches ==
    (UpdateJustHandled /\ tableData.present) => (RetiredBeforeAttached /\ PreviousSetRetired)

\* the order within a handler holds on every update
C14_OrderWithinUpdate == RetiredBeforeAttached


---------------------------------------------------------------------------
(* C17.  Over any sequence of updateView and destroy calls, each generated *)
(* mesh's geometry and material are released exactly once: every mesh is   *)
(* released by the time it is retired or the control is destroyed, and no  *)
(* mesh is released a second time (by an updateView arriving after         *)
(* destroy, or by destroy called twice).                                   *)

\* a mesh is retired when it is no longer in this._cubes
Retired(id) == \A k \in 1..Len(cubes) : cubes[k].id # id
\* the last handler was destroy
DestroyJustHandled == trace # <<>> /\ trace[1].op = "destroy"

C17_ReleasedExactlyOnce ==
    \A id \in Constructed :
        /\ released[id].geometry <= 1
        /\ released[id].material <= 1
        /\ (Retired(id) \/ DestroyJustHandled) =>
              (released[id].geometry = 1 /\ released[id].material = 1)

\* the part that holds: a mesh retired or destroyed has been released
C17_ReleasedAtLeastOnce ==
    \A id \in Constructed :
        (Retired(id) \/ DestroyJustHandled) =>
            (released[id].geometry >= 1 /\ released[id].material >= 1)

\* and exactly once as long as destroy has not been called
C17_OnceBeforeDestroy ==
    destroyed = 0 =>
        \A id \in Constructed :
            /\ released[id].geometry = (IF Retired(id) THEN 1 ELSE 0)
            /\ released[id].material = released[id].geometry


---------------------------------------------------------------------------
(* C15.  For a payload in polygon-with-rings form only the points of the   *)
(* first (outer) ring contribute to the global extent and to the generated *)
(* solid; the points of a later ring never influence the extent, the       *)
(* center or the solid, and the same ring is selected in the extent pass   *)
(* and in the solid-building pass.                                         *)

\* the payload value is in polygon-with-rings form
HasRings(p) == ~p.missing /\ ~p.throws /\ OuterRing(p.val) # p.val

\* the record with every ring after the first taken away
OuterOnly(p) == IF HasRings(p) THEN [p EXCEPT !.val = Arr(<<OuterRing(p.val)>>)] ELSE p

\* the last batch with the later rings of every record taken away
OuterOnlyRecords == [i \in 1..Len(Records) |-> OuterOnly(Records[i])]

\* what the same call yields on that batch
OuterOnlyOutcome ==
    createCubes(DataSet(OuterOnlyRecords), <<>>, prevCameraPosition, prevControlsTarget,
                <<>>, calls)

C15_OnlyOuterRingUsed ==
    (calls > 0 /\ tableData.present) =>
        /\ extent = OuterOnlyOutcome.extent
        /\ cubes = OuterOnlyOutcome.cubes
        /\ \A i \in 1..Len(Records) :
              HasRings(Records[i]) =>
                  \A o \in SolidsOf(i) :
                      cubes[o].ring =
                          NormaliseRing(OuterRing(Records[i].val), GlobalCenter2(extent))

\* a polygon with a second ring far from the first gave a solid, next to another record
C15_Witness ==
    /\ calls > 0
    /\ Len(Records) = 2
    /\ Records[1] = PolygonRings
    /\ SolidsOf(1) # {}
    /\ SolidsOf(2) # {}
    /\ extent.maxLon < 9


---------------------------------------------------------------------------
(* The mouse-rotation control.  The container delivers mousedown, mouseup  *)
(* and mousemove events in any order, each with the pointer's clientX and  *)
(* clientY.  Rotations are counted in units of 0.02 radian, the factor of  *)
(* onMouseMove, so a displacement of d pixels adds d units.                *)

MaxPointer == 1
MaxPresses == 2

\* event.clientX, event.clientY
Clients == 0..MaxPointer

\* the mouse interaction properties of the control
MouseFields ==
    [isMouseDown |-> isMouseDown, mouseX |-> mouseX, mouseY |-> mouseY,
     targetRotationX |-> targetRotationX, targetRotationY |-> targetRotationY,
     targetRotationOnMouseDownX |-> targetRotationOnMouseDownX,
     targetRotationOnMouseDownY |-> targetRotationOnMouseDownY,
     mouseXOnMouseDown |-> mouseXOnMouseDown, mouseYOnMouseDown |-> mouseYOnMouseDown]

onMouseDown(this, clientX, clientY) ==
    [this EXCEPT !.isMouseDown = TRUE,
                 !.mouseXOnMouseDown = clientX,
                 !.mouseYOnMouseDown = clientY,
                 !.targetRotationOnMouseDownX = this.targetRotationX,
                 !.targetRotationOnMouseDownY = this.targetRotationY]

onMouseUp(this, clientX, clientY) == [this EXCEPT !.isMouseDown = FALSE]

\* a handler without the test of this._isMouseDown
onMouseMoveAlways(this, clientX, clientY) ==
    [this EXCEPT !.mouseX = clientX,
                 !.mouseY = clientY,
                 !.targetRotationY =
                     this.targetRotationOnMouseDownY + (clientX - this.mouseXOnMouseDown),
                 !.targetRotationX =
                     this.targetRotationOnMouseDownX + (clientY - this.mouseYOnMouseDown)]

onMouseMove(this, clientX, clientY) ==
    IF this.isMouseDown
    THEN [this EXCEPT !.mouseX = clientX,
                      !.mouseY = clientY,
                      !.targetRotationY =
                          this.targetRotationOnMouseDownY + (clientX - this.mouseXOnMouseDown),
                      !.targetRotationX =
                          this.targetRotationOnMouseDownX + (clientY - this.mouseYOnMouseDown)]
    ELSE this

\* the fields after a handler returned, and the event it handled
Handled(type, after, clientX, clientY) ==
    /\ isMouseDown' = after.isMouseDown
    /\ mouseX' = after.mouseX
    /\ mouseY' = after.mouseY
    /\ targetRotationX' = after.targetRotationX
    /\ targetRotationY' = after.targetRotationY
    /\ targetRotationOnMouseDownX' = after.targetRotationOnMouseDownX
    /\ targetRotationOnMouseDownY' = after.targetRotationOnMouseDownY
    /\ mouseXOnMouseDown' = after.mouseXOnMouseDown
    /\ mouseYOnMouseDown' = after.mouseYOnMouseDown
    /\ pointer' = <<clientX, clientY>>
    /\ lastEvent' = [type |-> type, heldBefore |-> isMouseDown,
                     rotationX |-> targetRotationX, rotationY |-> targetRotationY]
    /\ UNCHANGED <<pipelineVars, scene, cameraPosition, controlsTarget, closed,
                   prevCameraPosition, prevControlsTarget, bounds, boundsScene,
                   fitVars, controlVars>>

MouseDown(clientX, clientY) ==
    /\ presses < MaxPresses
    /\ Handled("mousedown", onMouseDown(MouseFields, clientX, clientY), clientX, clientY)
    /\ presses' = presses + 1
    /\ press' = [rotationX |-> targetRotationX, rotationY |-> targetRotationY, seen |-> TRUE,
                 clientX |-> clientX, clientY |-> clientY]

MouseUp(clientX, clientY) ==
    /\ Handled("mouseup", onMouseUp(MouseFields, clientX, clientY), clientX, clientY)
    /\ UNCHANGED <<presses, press>>

MouseMove(clientX, clientY) ==
    /\ Handled("mousemove", onMouseMove(MouseFields, clientX, clientY), clientX, clientY)
    /\ UNCHANGED <<presses, press>>

MouseDowns == \E x \in Clients, y \in Clients : MouseDown(x, y)
MouseUps == \E x \in Clients, y \in Clients : MouseUp(x, y)
MouseMoves == \E x \in Clients, y \in Clients : MouseMove(x, y)

NextMouse == MouseDowns \/ MouseUps \/ MouseMoves

SpecMouse == Init /\ [][NextMouse]_vars

---------------------------------------------------------------------------
(* C18.  In the mouse-rotation control a mousemove changes the target      *)
(* rotation only while the button is held: with the button up a mousemove  *)
(* leaves both target rotation components unchanged; while dragging the    *)
(* target rotation equals the rotation captured at mousedown plus 0.02     *)
(* times the pointer displacement since mousedown, so releasing and        *)
(* pressing again continues from the current target without a jump.        *)

\* the target rotation is what the last event found
RotationKept ==
    /\ targetRotationX = lastEvent.rotationX
    /\ targetRotationY = lastEvent.rotationY

MoveJustHandled == lastEvent.type = "mousemove"

\* the target is the rotation at the last mousedown plus the displacement since then
FollowsPointer ==
    /\ press.seen
    /\ targetRotationY = press.rotationY + (pointer[1] - press.clientX)
    /\ targetRotationX = press.rotationX + (pointer[2] - press.clientY)

C18_RotatesOnlyWhileHeld ==
    /\ (MoveJustHandled /\ ~lastEvent.heldBefore) => RotationKept
    /\ (MoveJustHandled /\ lastEvent.heldBefore) => FollowsPointer
    /\ lastEvent.type \in {"mousedown", "mouseup"} => RotationKept
    /\ isMouseDown = (lastEvent.type = "mousedown" \/ (MoveJustHandled /\ lastEvent.heldBefore))

\* a second drag that started from a rotation the first drag left behind
C18_Witness ==
    /\ presses = 2
    /\ MoveJustHandled
    /\ lastEvent.heldBefore
    /\ press.rotationY # 0
    /\ press.rotationX # 0
    /\ targetRotationY # press.rotationY
    /\ targetRotationY # 0

\* a move with the button up after a drag turned the target
C18_MoveWithButtonUp ==
    /\ MoveJustHandled
    /\ ~lastEvent.heldBefore
    /\ targetRotationY # 0
    /\ pointer[1] # mouseX

====
